---- MODULE Spec2Model ----
(***************************************************************************)
(* The middleware pipeline of rbx-configs (src/api/middleware.rs,          *)
(* src/api/mod.rs): RobloxAuthMiddleware and RobloxRateLimitMiddleware in  *)
(* front of the next layer (transient retry + transport), which is the     *)
(* environment and answers every forwarded request with a response or an   *)
(* error.                                                                  *)
(***************************************************************************)
EXTENDS Integers, Sequences, FiniteSets, TLC

(***************************************************************************)
(* Bounds of the model.                                                    *)
(***************************************************************************)
\* largest max_429_retries a middleware is constructed with
MaxRetries == 5
\* deepest nesting of RobloxAuthMiddleware::handle inside itself
MaxDepth == 3
\* the same with two requests in flight
MaxConcDepth == 1
\* max_429_retries with two requests in flight
MaxConcRetries == 1

\* the concurrent logical requests (tokio tasks)
Tasks == {1, 2}

(***************************************************************************)
(* Option<T>: None is the empty sequence, Some(x) the one-element one.     *)
(***************************************************************************)
None == <<>>
Some(x) == <<x>>
IsSome(o) == o # <<>>
Unwrap(o) == o[1]

(***************************************************************************)
(* Header texts are sequences of one-character strings.  Obs stands for a  *)
(* byte outside visible ASCII, which HeaderValue::to_str rejects.          *)
(***************************************************************************)
Obs == "\\x80"
Digits == {"0", "1", "2", "3", "4", "5", "6", "7", "8", "9"}

DigitVal(c) ==
    CASE c = "0" -> 0 [] c = "1" -> 1 [] c = "2" -> 2 [] c = "3" -> 3
      [] c = "4" -> 4 [] c = "5" -> 5 [] c = "6" -> 6 [] c = "7" -> 7
      [] c = "8" -> 8 [] c = "9" -> 9

\* HeaderValue::to_str(): Err when a byte is not visible ASCII
to_str(v) == IF \E i \in 1..Len(v) : v[i] = Obs THEN None ELSE Some(v)

IsWhite(c) == c = " "

RECURSIVE TrimStart(_)
TrimStart(s) == IF s # <<>> /\ IsWhite(Head(s)) THEN TrimStart(Tail(s)) ELSE s

RECURSIVE TrimEnd(_)
TrimEnd(s) ==
    IF s # <<>> /\ IsWhite(s[Len(s)]) THEN TrimEnd(SubSeq(s, 1, Len(s) - 1)) ELSE s

\* str::trim()
trim(s) == TrimEnd(TrimStart(s))

RECURSIVE DecimalValue(_, _)
DecimalValue(s, acc) ==
    IF s = <<>> THEN acc ELSE DecimalValue(Tail(s), acc * 10 + DigitVal(Head(s)))

\* str::parse::<u64>(): an optional "+", then one or more decimal digits.
\* (Header texts of the model are too short to overflow 64 bits.)
parse_u64(s) ==
    LET body == IF s # <<>> /\ Head(s) = "+" THEN Tail(s) ELSE s
    IN  IF body = <<>> \/ \E i \in 1..Len(body) : body[i] \notin Digits
        THEN None
        ELSE Some(DecimalValue(body, 0))

\* .get(name).and_then(|v| v.to_str().ok()).and_then(|s| s.trim().parse::<u64>().ok())
HeaderU64(h) ==
    IF ~IsSome(h) THEN None
    ELSE LET s == to_str(Unwrap(h))
         IN  IF ~IsSome(s) THEN None ELSE parse_u64(trim(Unwrap(s)))

(***************************************************************************)
(* Program constants.                                                      *)
(***************************************************************************)
DefaultCushionMs == 75
FallbackWaitSecs == 1
TOO_MANY_REQUESTS == 429
FORBIDDEN == 403
BAD_REQUEST == 400
EtagWaitSecs == 1

(***************************************************************************)
(* What the next layer can answer.  A response carries a status, the four  *)
(* headers the middlewares read (each an Option of header text) and, for   *)
(* the body, the message of an ErrorResponse (None: the body is not one).  *)
(***************************************************************************)
SecondsTexts ==
    {<<"0">>, <<"2">>, <<" ", "3", " ">>, <<"+", "1">>, <<"-", "1">>, <<"x">>,
     <<>>, <<Obs>>}
RateHeader == {None} \cup {Some(s) : s \in {<<"0">>, <<" ", "2">>, <<"x">>}}
TokenHeader == {None, Some(<<"A">>), Some(<<"B">>), Some(<<Obs>>)}

Response(st, ra, rs, rm, tk, msg) ==
    [status |-> st, retry_after |-> ra, reset |-> rs, remaining |-> rm,
     csrf |-> tk, message |-> msg]

\* the answers a rate-limiting server gives: every mix of the three rate headers
RateResponses ==
    {Response(st, ra, rs, rm, None, None) :
        st \in {200, 429}, ra \in RateHeader, rs \in RateHeader,
        rm \in {None, Some(<<"0">>)}}

\* the answers seen through the whole pipeline: every status the middlewares
\* branch on, with and without a token header
PipelineResponses ==
    {Response(st, None, None, None, tk, None) :
        st \in {200, 403, 500}, tk \in TokenHeader}
    \cup {Response(429, ra, None, None, None, None) : ra \in {None, Some(<<"2">>)}}
    \cup {Response(400, None, None, None, tk, m) :
            tk \in {None, Some(<<"A">>)},
            m \in {None, Some("ETagMismatch"), Some("InvalidRequest")}}

\* the answers two requests in flight get from a server that never limits
\* the rate: each status the auth middleware branches on, and two tokens to
\* tell the writers apart
ConcurrentResponses ==
    {Response(200, None, None, None, None, None),
     Response(400, None, None, None, None, Some("ETagMismatch"))}
    \cup {Response(403, None, None, None, tk, None) : tk \in TokenHeader}

\* the answers two requests in flight get from a server that limits the rate
LimitedResponses ==
    {Response(200, None, None, None, None, None),
     Response(429, None, None, None, None, None),
     Response(403, None, None, None, Some(<<"A">>), None),
     Response(400, None, None, None, None, Some("ETagMismatch"))}

\* the answers handed to ingest_headers: header texts that to_str, trim and
\* parse accept or reject in every way
IngestResponses ==
    {Response(200, None, rs, rm, None, None) :
        rs \in {None} \cup {Some(s) : s \in SecondsTexts},
        rm \in {None} \cup {Some(s) : s \in SecondsTexts}}

\* the answers handed to ingest_headers beside a running handle
IngestProbes ==
    {Response(200, None, None, None, None, None),
     Response(200, None, Some(<<" ", "2">>), Some(<<"0">>), None, None)}

\* a request as the middlewares see it: whether try_clone() succeeds (the body
\* is not a stream) and the two headers RobloxAuthMiddleware inserts
Request(c, tk, ck) == [clonable |-> c, csrf |-> tk, cookie |-> ck]
CallerRequests == {Request(c, None, None) : c \in BOOLEAN}

\* try_clone that never yields a copy
try_clone_none(r) == None

\* try_clone that copies a streaming body as well
try_clone_always(r) == Some(r)

\* Request::try_clone(): a copy of the request, or None for a streaming body
try_clone(r) == IF r.clonable THEN Some(r) ELSE None

(***************************************************************************)
(* State.                                                                  *)
(***************************************************************************)
VARIABLES
    client,            \* the middleware stack the client was built with
    max_429_retries,   \* RobloxRateLimitMiddleware.max_429_retries
    cushion_ms,        \* RobloxRateLimitMiddleware.cushion_ms
    state,             \* RobloxRateLimitMiddleware.state (RateState)
    csrf_token,        \* RobloxAuthMiddleware.csrf_token
    seen_etag,         \* RobloxAuthMiddleware.seen_etag
    jar,               \* JAR: the session cookie, None before set_cookie
    pc,                \* per task: where it is suspended
    rl,                \* per task: locals of RobloxRateLimitMiddleware::handle
    au,                \* per task: locals of the running RobloxAuthMiddleware::handle
    stack,             \* per task: the suspended outer calls of that handle
    ret,               \* per task: the value being returned to the caller
    sends,             \* per task: requests forwarded by the running rate-limit call
    sleeps,            \* per task: sleeps completed by the running rate-limit call
    got429,            \* per task: 429 responses received by the running rate-limit call
    slept_ms,          \* per task: length of the sleep in progress, in ms
    waited_ms,         \* per task: ms slept so far by the running rate-limit call
    entry,             \* per task: the RateState when the running rate-limit call began
    ingested,          \* the response last handed to ingest_headers
    hist,              \* per task: what the running caller request has seen so far
    locks              \* per tokio Mutex: who holds its guard

vars == <<client, max_429_retries, cushion_ms, state, csrf_token, seen_etag, jar,
          pc, rl, au, stack, ret, sends, sleeps, got429, slept_ms, waited_ms, entry,
          ingested, hist, locks>>

config == <<client, max_429_retries, cushion_ms, jar>>
rlObs == <<sends, sleeps, got429, slept_ms, waited_ms, entry>>
rateState == <<state, ingested>>
authState == <<csrf_token, seen_etag>>

\* RateState::default()
RateStateDefault == [remaining |-> None, reset_after_secs |-> None]

NoResponse == Response(0, None, None, None, None, None)
NoRequest == Request(FALSE, None, None)
NoRl == [req |-> NoRequest, req_clone |-> None, attempt |-> 0, resp |-> NoResponse]
NoAu == [req |-> NoRequest, resp |-> NoResponse, did_update_csrf |-> FALSE,
         seen |-> FALSE]
NoRet == [kind |-> "none", resp |-> NoResponse, error |-> <<>>]
\* per caller request: recursive calls made on a 403, 403 responses whose token
\* header was stored, completed write-conflict sleeps, warnings logged, and the
\* token header of the 403 that caused the running retry, and the request as
\* the caller handed it over; the results the next layer gave it, and how many
\* of them were a 400 with the message ETagMismatch; the token that was
\* cached when the running handle inserted its headers, and the seconds slept
\* in write-conflict waits
NoHist == [retries403 |-> 0, updates403 |-> 0, etag_sleeps |-> 0, warnings |-> 0,
           fresh |-> None, call |-> NoRequest, answers |-> 0, etags |-> 0,
           injected |-> None, slept_secs |-> 0]

\* the tokio Mutexes: None when unlocked, Some(t) while task t holds the guard,
\* Some(0) while a caller of ingest_headers holds it
Unlocked == [state |-> None, csrf_token |-> None, seen_etag |-> None]
Holds(who, mutex) == locks[mutex] = Some(who)
\* .lock().await returns the guard
Acquire(who, mutex) ==
    /\ locks[mutex] = None
    /\ locks' = [locks EXCEPT ![mutex] = Some(who)]
\* the guard is dropped at the end of the function that locked
Release(mutex) == locks' = [locks EXCEPT ![mutex] = None]

Ok(resp) == [kind |-> "ok", resp |-> resp, error |-> <<>>]
Err(e) == [kind |-> "err", resp |-> NoResponse, error |-> e]
\* an error of the next layer (transient retries exhausted, connection failure)
NextError == Err(<<"next">>)
\* resp.json() fails: the body of a 400 is no ErrorResponse
JsonError == Err(<<"json">>)
\* the error without the message of the body
StatusErrorNoMessage(status, message) == Err(<<"status", status>>)

\* anyhow!("Request failed with status {}: {}", status, body.message)
StatusError(status, message) == Err(<<"status", status, message>>)
\* Option::unwrap() on None
Panic == [kind |-> "panic", resp |-> NoResponse, error |-> <<>>]

(***************************************************************************)
(* RobloxRateLimitMiddleware.                                              *)
(***************************************************************************)
\* ingest_headers with the two `if ..is_some()` tests left out
ingest_headers_overwrite(st, resp) ==
    [remaining |-> HeaderU64(resp.remaining),
     reset_after_secs |-> HeaderU64(resp.reset)]

\* ingest_headers: the RateState after reading the two rate headers of resp
ingest_headers(st, resp) ==
    LET remaining == HeaderU64(resp.remaining)
        reset_secs == HeaderU64(resp.reset)
    IN  [remaining |-> IF IsSome(remaining) THEN remaining ELSE st.remaining,
         reset_after_secs |->
            IF IsSome(reset_secs) THEN reset_secs ELSE st.reset_after_secs]

\* retry_wait_from_headers looking at x-ratelimit-reset before retry-after
retry_wait_reset_first(resp) ==
    LET retry_after == HeaderU64(resp.retry_after)
        reset == HeaderU64(resp.reset)
    IN  IF IsSome(reset) THEN Unwrap(reset)
        ELSE IF IsSome(retry_after) THEN Unwrap(retry_after)
        ELSE FallbackWaitSecs

\* retry_wait_from_headers: the seconds to wait after a 429
retry_wait_from_headers(resp) ==
    LET retry_after == HeaderU64(resp.retry_after)
        reset == HeaderU64(resp.reset)
    IN  IF IsSome(retry_after) THEN Unwrap(retry_after)
        ELSE IF IsSome(reset) THEN Unwrap(reset)
        ELSE FallbackWaitSecs

\* wait + Duration::from_millis(self.cushion_ms), in milliseconds
SleepMs(wait_secs, cushion) == wait_secs * 1000 + cushion

\* the exhaustion test one attempt early
RetriesExhaustedEarly(attempt, max) == attempt + 1 >= max

\* attempt >= self.max_429_retries
RetriesExhausted(attempt, max) == attempt >= max

\* what next.run(req, extensions).await can yield
Server ==
    CASE client = "ratelimit" -> RateResponses
      [] client = "concurrent" -> ConcurrentResponses
      [] client = "limited" -> LimitedResponses
      [] OTHER -> PipelineResponses
Outcomes == {NextError} \cup {Ok(r) : r \in Server}

\* a value leaves RobloxRateLimitMiddleware::handle: to the auth middleware in
\* front of it, or to the caller when the client was built with it alone
RlReturn(t, value) ==
    /\ ret' = [ret EXCEPT ![t] = value]
    /\ rl' = [rl EXCEPT ![t] = NoRl]
    /\ pc' = [pc EXCEPT ![t] = IF client = "ratelimit" THEN "done" ELSE "a_resume"]

\* for attempt in 0..=max: let req_clone = req.try_clone(); next.run(req, ..)
RL_Send(t) ==
    /\ pc[t] = "rl_send"
    /\ rl[t].attempt <= max_429_retries
    /\ rl' = [rl EXCEPT ![t].req_clone = try_clone(rl[t].req)]
    /\ sends' = [sends EXCEPT ![t] = @ + 1]
    /\ pc' = [pc EXCEPT ![t] = "rl_wait"]
    /\ UNCHANGED <<config, rateState, authState, au, stack, ret, sleeps, got429,
                   slept_ms, waited_ms, entry, hist, locks>>

\* RL_Error that takes a failure of the next layer for a 429 without headers
RL_ErrorRetries(t) ==
    /\ pc[t] = "rl_wait"
    /\ IF RetriesExhausted(rl[t].attempt, max_429_retries)
       THEN /\ RlReturn(t, NextError)
            /\ UNCHANGED slept_ms
       ELSE /\ slept_ms' = [slept_ms EXCEPT ![t] = SleepMs(FallbackWaitSecs, cushion_ms)]
            /\ pc' = [pc EXCEPT ![t] = "rl_sleep"]
            /\ UNCHANGED <<rl, ret>>
    /\ UNCHANGED <<config, rateState, authState, au, stack, sends, sleeps, got429,
                   waited_ms, entry, hist, locks>>

\* next.run(..).await? fails: the error is returned at once
RL_Error(t) ==
    /\ pc[t] = "rl_wait"
    /\ RlReturn(t, NextError)
    /\ UNCHANGED <<config, rateState, authState, au, stack, rlObs, hist, locks>>

\* next.run(..).await? yields a response: the two early returns, or the start
\* of the sleep before a retry
RL_Receive(t) ==
    /\ pc[t] = "rl_wait"
    /\ \E resp \in Server :
        /\ got429' = [got429 EXCEPT
                ![t] = IF resp.status = TOO_MANY_REQUESTS THEN @ + 1 ELSE @]
        /\ IF resp.status # TOO_MANY_REQUESTS
           THEN /\ RlReturn(t, Ok(resp))
                /\ UNCHANGED slept_ms
           ELSE IF RetriesExhausted(rl[t].attempt, max_429_retries)
           THEN /\ RlReturn(t, Ok(resp))
                /\ UNCHANGED slept_ms
           ELSE /\ rl' = [rl EXCEPT ![t].resp = resp]
                /\ slept_ms' = [slept_ms EXCEPT
                        ![t] = SleepMs(retry_wait_from_headers(resp), cushion_ms)]
                /\ pc' = [pc EXCEPT ![t] = "rl_sleep"]
                /\ UNCHANGED ret
    /\ UNCHANGED <<config, rateState, authState, au, stack, sends, sleeps, waited_ms,
                   entry, hist, locks>>

\* the sleep is over: retry with the clone, or give the 429 back when there is none
RL_Wake(t) ==
    /\ pc[t] = "rl_sleep"
    /\ sleeps' = [sleeps EXCEPT ![t] = @ + 1]
    /\ slept_ms' = [slept_ms EXCEPT ![t] = 0]
    /\ waited_ms' = [waited_ms EXCEPT ![t] = @ + slept_ms[t]]
    /\ IF IsSome(rl[t].req_clone)
       THEN /\ rl' = [rl EXCEPT ![t].req = Unwrap(rl[t].req_clone),
                                ![t].resp = NoResponse,
                                ![t].attempt = @ + 1]
            /\ pc' = [pc EXCEPT ![t] = "rl_send"]
            /\ UNCHANGED ret
       ELSE RlReturn(t, Ok(rl[t].resp))
    /\ UNCHANGED <<config, rateState, authState, au, stack, sends, got429, entry, hist,
                   locks>>

\* ingest_headers(&self, resp): handle never calls it; it is an operation of
\* the middleware on its own.  let mut st = self.state.lock().await
IngestLock ==
    /\ Acquire(0, "state")
    /\ UNCHANGED <<config, rateState, authState, pc, rl, au, stack, ret, rlObs, hist>>

\* the two assignments under the guard, which is dropped at the return
IngestHeaders ==
    /\ Holds(0, "state")
    /\ \E resp \in IF client = "ingest" THEN IngestResponses ELSE IngestProbes :
        /\ state' = ingest_headers(state, resp)
        /\ ingested' = resp
    /\ Release("state")
    /\ UNCHANGED <<config, authState, pc, rl, au, stack, ret, rlObs, hist>>

\* a caller hands a request to a client built with the rate-limit middleware alone
CallRateLimit(t) ==
    /\ client = "ratelimit"
    /\ pc[t] \in {"idle", "done"}
    /\ \E r \in CallerRequests :
        /\ rl' = [rl EXCEPT ![t] = [NoRl EXCEPT !.req = r]]
        /\ hist' = [hist EXCEPT ![t] = [NoHist EXCEPT !.call = r]]
    /\ pc' = [pc EXCEPT ![t] = "rl_send"]
    /\ ret' = [ret EXCEPT ![t] = NoRet]
    /\ sends' = [sends EXCEPT ![t] = 0]
    /\ sleeps' = [sleeps EXCEPT ![t] = 0]
    /\ got429' = [got429 EXCEPT ![t] = 0]
    /\ slept_ms' = [slept_ms EXCEPT ![t] = 0]
    /\ waited_ms' = [waited_ms EXCEPT ![t] = 0]
    /\ entry' = [entry EXCEPT ![t] = state]
    /\ UNCHANGED <<config, rateState, authState, au, stack, locks>>

(***************************************************************************)
(* RobloxAuthMiddleware.                                                   *)
(***************************************************************************)
\* the nesting of handle inside itself the model follows
DepthBound == IF client = "pipeline" THEN MaxDepth ELSE MaxConcDepth

\* a value leaves the running RobloxAuthMiddleware::handle
AuReturn(t, value) ==
    /\ ret' = [ret EXCEPT ![t] = value]
    /\ pc' = [pc EXCEPT ![t] = "a_return"]

\* InjectHeaders that leaves an x-csrf-token header the request already has
InjectHeadersKeepOld(r, token, cookie) ==
    [r EXCEPT !.csrf = IF IsSome(token) /\ ~IsSome(@) THEN token ELSE @,
              !.cookie = IF IsSome(cookie) THEN cookie ELSE @]

\* the request with the cached token and the jar's cookie inserted
InjectHeaders(r, token, cookie) ==
    [r EXCEPT !.csrf = IF IsSome(token) THEN token ELSE @,
              !.cookie = IF IsSome(cookie) THEN cookie ELSE @]

\* TokenUpdate that keeps the first token ever cached
TokenUpdateOnce(resp) ==
    IF IsSome(resp.csrf) /\ ~IsSome(csrf_token) THEN to_str(Unwrap(resp.csrf)) ELSE None

\* did the x-csrf-token header of resp give a token to store
TokenUpdate(resp) ==
    IF IsSome(resp.csrf) THEN to_str(Unwrap(resp.csrf)) ELSE None

\* the retry test without did_update_csrf
RetryForbiddenAlways(status, did_update_csrf) == status = FORBIDDEN

\* resp.status() == FORBIDDEN and did_update_csrf
RetryForbidden(status, did_update_csrf) == status = FORBIDDEN /\ did_update_csrf

\* the Mutex the function called next at this point of handle locks:
\* get_csrf_token, set_csrf_token (called for a readable token header only),
\* has_seen, set_seen
LockAt(t) ==
    CASE pc[t] = "a_inject" -> "csrf_token"
      [] pc[t] = "a_token" /\ IsSome(TokenUpdate(au[t].resp)) -> "csrf_token"
      [] pc[t] \in {"a_has_seen", "a_set_seen", "a_clear_seen"} -> "seen_etag"
      [] OTHER -> "none"

\* self.csrf_token.lock().await, self.seen_etag.lock().await
A_Lock(t) ==
    /\ LockAt(t) # "none"
    /\ Acquire(t, LockAt(t))
    /\ UNCHANGED <<config, rateState, authState, pc, rl, au, stack, ret, rlObs, hist>>

\* get_csrf_token, insert x-csrf-token; JAR.cookies, insert cookie
A_Inject(t) ==
    /\ pc[t] = "a_inject"
    /\ Holds(t, "csrf_token")
    /\ au' = [au EXCEPT ![t].req = InjectHeaders(@, csrf_token, jar)]
    /\ hist' = [hist EXCEPT ![t].injected = csrf_token]
    /\ Release("csrf_token")
    /\ pc' = [pc EXCEPT ![t] = "a_forward"]
    /\ UNCHANGED <<config, rateState, authState, rl, stack, ret, rlObs>>

\* A_Forward into a rate-limit middleware that goes on counting its attempts
\* where its last call stopped
A_ForwardKeepAttempt(t) ==
    /\ pc[t] = "a_forward"
    /\ IF IsSome(try_clone(au[t].req))
       THEN /\ rl' = [rl EXCEPT ![t] = [NoRl EXCEPT !.req = Unwrap(try_clone(au[t].req)),
                                                    !.attempt = sleeps[t]]]
            /\ pc' = [pc EXCEPT ![t] = "rl_send"]
            /\ sends' = [sends EXCEPT ![t] = 0]
            /\ sleeps' = [sleeps EXCEPT ![t] = 0]
            /\ got429' = [got429 EXCEPT ![t] = 0]
            /\ slept_ms' = [slept_ms EXCEPT ![t] = 0]
            /\ waited_ms' = [waited_ms EXCEPT ![t] = 0]
            /\ entry' = [entry EXCEPT ![t] = state]
            /\ UNCHANGED ret
       ELSE /\ ret' = [ret EXCEPT ![t] = Panic]
            /\ pc' = [pc EXCEPT ![t] = "panicked"]
            /\ UNCHANGED <<rl, rlObs>>
    /\ UNCHANGED <<config, rateState, authState, au, stack, hist, locks>>

\* next.run(req.try_clone().unwrap(), extensions): into the rate-limit middleware
A_Forward(t) ==
    /\ pc[t] = "a_forward"
    /\ IF IsSome(try_clone(au[t].req))
       THEN /\ rl' = [rl EXCEPT ![t] = [NoRl EXCEPT !.req = Unwrap(try_clone(au[t].req))]]
            /\ pc' = [pc EXCEPT ![t] = "rl_send"]
            /\ sends' = [sends EXCEPT ![t] = 0]
            /\ sleeps' = [sleeps EXCEPT ![t] = 0]
            /\ got429' = [got429 EXCEPT ![t] = 0]
            /\ slept_ms' = [slept_ms EXCEPT ![t] = 0]
            /\ waited_ms' = [waited_ms EXCEPT ![t] = 0]
            /\ entry' = [entry EXCEPT ![t] = state]
            /\ UNCHANGED ret
       ELSE /\ ret' = [ret EXCEPT ![t] = Panic]
            /\ pc' = [pc EXCEPT ![t] = "panicked"]
            /\ UNCHANGED <<rl, rlObs>>
    /\ UNCHANGED <<config, rateState, authState, au, stack, hist, locks>>

\* .await?: the error of the next layer is returned, a response is kept
A_Resume(t) ==
    /\ pc[t] = "a_resume"
    /\ IF ret[t].kind = "err"
       THEN /\ pc' = [pc EXCEPT ![t] = "a_return"]
            /\ UNCHANGED <<au, ret>>
       ELSE /\ au' = [au EXCEPT ![t].resp = ret[t].resp]
            /\ ret' = [ret EXCEPT ![t] = NoRet]
            /\ pc' = [pc EXCEPT ![t] = "a_token"]
    /\ hist' = [hist EXCEPT ![t].answers = @ + 1]
    /\ UNCHANGED <<config, rateState, authState, rl, stack, rlObs, locks>>

\* A_Token that puts the token of the response into the cookie jar as well
A_TokenIntoJar(t) ==
    /\ pc[t] = "a_token"
    /\ LET token == TokenUpdate(au[t].resp)
       IN  IF IsSome(token)
           THEN /\ Holds(t, "csrf_token")
                /\ csrf_token' = token
                /\ jar' = Some("token")
                /\ Release("csrf_token")
                /\ au' = [au EXCEPT ![t].did_update_csrf = TRUE]
                /\ hist' = [hist EXCEPT ![t].updates403 =
                        IF au[t].resp.status = FORBIDDEN THEN @ + 1 ELSE @]
           ELSE UNCHANGED <<csrf_token, jar, au, hist, locks>>
    /\ pc' = [pc EXCEPT ![t] = "a_status"]
    /\ UNCHANGED <<client, max_429_retries, cushion_ms, rateState, seen_etag, rl, stack,
                   ret, rlObs>>

\* the x-csrf-token header of the response: set_csrf_token, did_update_csrf
A_Token(t) ==
    /\ pc[t] = "a_token"
    /\ LET token == TokenUpdate(au[t].resp)
       IN  IF IsSome(token)
           THEN /\ Holds(t, "csrf_token")
                /\ csrf_token' = token
                /\ Release("csrf_token")
                /\ au' = [au EXCEPT ![t].did_update_csrf = TRUE]
                /\ hist' = [hist EXCEPT ![t].updates403 =
                        IF au[t].resp.status = FORBIDDEN THEN @ + 1 ELSE @]
           ELSE UNCHANGED <<csrf_token, au, hist, locks>>
    /\ pc' = [pc EXCEPT ![t] = "a_status"]
    /\ UNCHANGED <<config, rateState, seen_etag, rl, stack, ret, rlObs>>

\* 403 with a token update: handle calls itself with the request
A_RetryForbidden(t) ==
    /\ pc[t] = "a_status"
    /\ RetryForbidden(au[t].resp.status, au[t].did_update_csrf)
    /\ Len(stack[t]) < DepthBound
    /\ stack' = [stack EXCEPT ![t] = Append(@, [at |-> "L150", seen |-> FALSE])]
    /\ au' = [au EXCEPT ![t] = [NoAu EXCEPT !.req = au[t].req]]
    /\ hist' = [hist EXCEPT ![t].retries403 = @ + 1,
                            ![t].fresh = au[t].resp.csrf]
    /\ pc' = [pc EXCEPT ![t] = "a_inject"]
    /\ UNCHANGED <<config, rateState, authState, rl, ret, rlObs, locks>>

\* A_Status that turns a server error into an error value
A_StatusErrors(t) ==
    /\ pc[t] = "a_status"
    /\ ~RetryForbidden(au[t].resp.status, au[t].did_update_csrf)
    /\ IF au[t].resp.status = BAD_REQUEST
       THEN /\ pc' = [pc EXCEPT ![t] = "a_body"]
            /\ UNCHANGED ret
       ELSE IF au[t].resp.status >= 500
       THEN AuReturn(t, StatusError(au[t].resp.status, "server error"))
       ELSE AuReturn(t, Ok(au[t].resp))
    /\ UNCHANGED <<config, rateState, authState, rl, au, stack, rlObs, hist, locks>>

\* any other status: 400 goes on to read the body, the rest is returned
A_Status(t) ==
    /\ pc[t] = "a_status"
    /\ ~RetryForbidden(au[t].resp.status, au[t].did_update_csrf)
    /\ IF au[t].resp.status = BAD_REQUEST
       THEN /\ pc' = [pc EXCEPT ![t] = "a_body"]
            /\ UNCHANGED ret
       ELSE AuReturn(t, Ok(au[t].resp))
    /\ UNCHANGED <<config, rateState, authState, rl, au, stack, rlObs, hist, locks>>

\* A_Body that gives up on the second write conflict of a caller request
A_BodyGiveUp(t) ==
    /\ pc[t] = "a_body"
    /\ LET body == au[t].resp.message
       IN  IF ~IsSome(body) THEN AuReturn(t, JsonError) /\ UNCHANGED hist
           ELSE IF Unwrap(body) = "ETagMismatch"
           THEN /\ hist' = [hist EXCEPT ![t].etags = @ + 1]
                /\ IF hist[t].etags = 0
                   THEN pc' = [pc EXCEPT ![t] = "a_has_seen"] /\ UNCHANGED ret
                   ELSE AuReturn(t, StatusError(au[t].resp.status, Unwrap(body)))
           ELSE /\ AuReturn(t, StatusError(au[t].resp.status, Unwrap(body)))
                /\ UNCHANGED hist
    /\ UNCHANGED <<config, rateState, authState, rl, au, stack, rlObs, locks>>

\* resp.json().await?: the message of a 400
A_Body(t) ==
    /\ pc[t] = "a_body"
    /\ LET body == au[t].resp.message
       IN  IF ~IsSome(body) THEN AuReturn(t, JsonError) /\ UNCHANGED hist
           ELSE IF Unwrap(body) = "ETagMismatch"
           THEN /\ pc' = [pc EXCEPT ![t] = "a_has_seen"]
                /\ hist' = [hist EXCEPT ![t].etags = @ + 1]
                /\ UNCHANGED ret
           ELSE /\ AuReturn(t, StatusError(au[t].resp.status, Unwrap(body)))
                /\ UNCHANGED hist
    /\ UNCHANGED <<config, rateState, authState, rl, au, stack, rlObs, locks>>

\* tokio::time::sleep(Duration::from_secs(1)) begins
EtagSleep(t) ==
    /\ slept_ms' = [slept_ms EXCEPT ![t] = EtagWaitSecs * 1000]
    /\ pc' = [pc EXCEPT ![t] = "a_sleep"]

\* A_HasSeen that never finds the flag set
A_HasSeenNever(t) ==
    /\ pc[t] = "a_has_seen"
    /\ Holds(t, "seen_etag")
    /\ au' = [au EXCEPT ![t].seen = FALSE]
    /\ Release("seen_etag")
    /\ pc' = [pc EXCEPT ![t] = "a_set_seen"]
    /\ UNCHANGED <<config, rateState, authState, rl, stack, ret, rlObs, hist>>

\* let seen = self.has_seen().await; with seen the sleep comes next
A_HasSeen(t) ==
    /\ pc[t] = "a_has_seen"
    /\ Holds(t, "seen_etag")
    /\ au' = [au EXCEPT ![t].seen = seen_etag]
    /\ Release("seen_etag")
    /\ IF seen_etag
       THEN EtagSleep(t)
       ELSE /\ pc' = [pc EXCEPT ![t] = "a_set_seen"]
            /\ UNCHANGED slept_ms
    /\ UNCHANGED <<config, rateState, authState, rl, stack, ret, sends, sleeps, got429,
                   waited_ms, entry, hist>>

\* A_SetSeen with the guard still alive during the sleep
A_SetSeenHolding(t) ==
    /\ pc[t] = "a_set_seen"
    /\ Holds(t, "seen_etag")
    /\ seen_etag' = TRUE
    /\ hist' = [hist EXCEPT ![t].warnings = @ + 1]
    /\ EtagSleep(t)
    /\ UNCHANGED <<config, rateState, csrf_token, rl, au, stack, ret, sends, sleeps,
                   got429, waited_ms, entry, locks>>

\* self.set_seen(true).await; warn!(..); then the sleep
A_SetSeen(t) ==
    /\ pc[t] = "a_set_seen"
    /\ Holds(t, "seen_etag")
    /\ seen_etag' = TRUE
    /\ Release("seen_etag")
    /\ hist' = [hist EXCEPT ![t].warnings = @ + 1]
    /\ EtagSleep(t)
    /\ UNCHANGED <<config, rateState, csrf_token, rl, au, stack, ret, sends, sleeps,
                   got429, waited_ms, entry>>

\* the one-second sleep is over: handle calls itself with the request
A_RetryEtag(t) ==
    /\ pc[t] = "a_sleep"
    /\ Len(stack[t]) < DepthBound
    /\ stack' = [stack EXCEPT ![t] = Append(@, [at |-> "L166", seen |-> au[t].seen])]
    /\ au' = [au EXCEPT ![t] = [NoAu EXCEPT !.req = au[t].req]]
    /\ hist' = [hist EXCEPT ![t].etag_sleeps = @ + 1, ![t].fresh = None,
                            ![t].slept_secs = @ + slept_ms[t] \div 1000]
    /\ slept_ms' = [slept_ms EXCEPT ![t] = 0]
    /\ pc' = [pc EXCEPT ![t] = "a_inject"]
    /\ UNCHANGED <<config, rateState, authState, rl, ret, sends, sleeps, got429,
                   waited_ms, entry, locks>>

\* A_Return as if the nested call were made with `?`: an error leaves the
\* outer call at once
A_ReturnErrSkipsClear(t) ==
    /\ pc[t] = "a_return"
    /\ IF stack[t] = <<>>
       THEN /\ pc' = [pc EXCEPT ![t] = "done"]
            /\ au' = [au EXCEPT ![t] = NoAu]
            /\ UNCHANGED stack
       ELSE LET outer == stack[t][Len(stack[t])]
            IN  /\ stack' = [stack EXCEPT ![t] = SubSeq(@, 1, Len(@) - 1)]
                /\ au' = [au EXCEPT ![t] = [NoAu EXCEPT !.seen = outer.seen]]
                /\ pc' = [pc EXCEPT ![t] =
                        IF outer.at = "L166" /\ ~outer.seen /\ ret[t].kind # "err"
                        THEN "a_clear_seen" ELSE "a_return"]
    /\ UNCHANGED <<config, rateState, authState, rl, ret, rlObs, hist, locks>>

\* the running handle returns: to the caller, or into the call that made it
A_Return(t) ==
    /\ pc[t] = "a_return"
    /\ IF stack[t] = <<>>
       THEN /\ pc' = [pc EXCEPT ![t] = "done"]
            /\ au' = [au EXCEPT ![t] = NoAu]
            /\ UNCHANGED stack
       ELSE LET outer == stack[t][Len(stack[t])]
            IN  /\ stack' = [stack EXCEPT ![t] = SubSeq(@, 1, Len(@) - 1)]
                /\ au' = [au EXCEPT ![t] = [NoAu EXCEPT !.seen = outer.seen]]
                /\ pc' = [pc EXCEPT ![t] =
                        IF outer.at = "L166" /\ ~outer.seen
                        THEN "a_clear_seen" ELSE "a_return"]
    /\ UNCHANGED <<config, rateState, authState, rl, ret, rlObs, hist, locks>>

\* if !seen { self.set_seen(false).await }
A_ClearSeen(t) ==
    /\ pc[t] = "a_clear_seen"
    /\ Holds(t, "seen_etag")
    /\ seen_etag' = FALSE
    /\ Release("seen_etag")
    /\ pc' = [pc EXCEPT ![t] = "a_return"]
    /\ UNCHANGED <<config, rateState, csrf_token, rl, au, stack, ret, rlObs, hist>>

\* a caller hands a request to API_CLIENT
CallPipeline(t) ==
    /\ client \in {"pipeline", "concurrent", "limited"}
    /\ pc[t] \in {"idle", "done"}
    /\ \E r \in CallerRequests :
        /\ au' = [au EXCEPT ![t] = [NoAu EXCEPT !.req = r]]
        /\ hist' = [hist EXCEPT ![t] = [NoHist EXCEPT !.call = r]]
    /\ pc' = [pc EXCEPT ![t] = "a_inject"]
    /\ ret' = [ret EXCEPT ![t] = NoRet]
    /\ UNCHANGED <<config, rateState, authState, rl, stack, rlObs, locks>>

(***************************************************************************)
(* Specifications.                                                         *)
(***************************************************************************)
InitTasks ==
    /\ state = RateStateDefault
    /\ ingested = NoResponse
    /\ csrf_token = None
    /\ seen_etag = FALSE
    /\ cushion_ms = DefaultCushionMs
    /\ max_429_retries \in 0..MaxRetries
    /\ pc = [t \in Tasks |-> "idle"]
    /\ rl = [t \in Tasks |-> NoRl]
    /\ au = [t \in Tasks |-> NoAu]
    /\ stack = [t \in Tasks |-> <<>>]
    /\ ret = [t \in Tasks |-> NoRet]
    /\ sends = [t \in Tasks |-> 0]
    /\ sleeps = [t \in Tasks |-> 0]
    /\ got429 = [t \in Tasks |-> 0]
    /\ slept_ms = [t \in Tasks |-> 0]
    /\ waited_ms = [t \in Tasks |-> 0]
    /\ entry = [t \in Tasks |-> RateStateDefault]
    /\ hist = [t \in Tasks |-> NoHist]
    /\ locks = Unlocked

\* RobloxRateLimitMiddleware::new().with_max_429_retries(n) as the only
\* middleware of the client, one request at a time
InitRL ==
    /\ client = "ratelimit"
    /\ jar = None
    /\ InitTasks

StepRL(t) ==
    \/ CallRateLimit(t)
    \/ RL_Send(t)
    \/ RL_Error(t)
    \/ RL_Receive(t)
    \/ RL_Wake(t)

NextRL ==
    \/ IngestLock
    \/ IngestHeaders
    \/ \E t \in {1} : StepRL(t)

SpecRL == InitRL /\ [][NextRL]_vars

\* API_CLIENT: auth, then rate limit, then the next layer; set_cookie has
\* stored the session cookie or not
Init ==
    /\ client = "pipeline"
    /\ jar \in {None, Some("session")}
    /\ InitTasks

Step(t) ==
    \/ CallPipeline(t)
    \/ A_Lock(t)
    \/ A_Inject(t)
    \/ A_Forward(t)
    \/ RL_Send(t)
    \/ RL_Error(t)
    \/ RL_Receive(t)
    \/ RL_Wake(t)
    \/ A_Resume(t)
    \/ A_Token(t)
    \/ A_RetryForbidden(t)
    \/ A_Status(t)
    \/ A_Body(t)
    \/ A_HasSeen(t)
    \/ A_SetSeen(t)
    \/ A_RetryEtag(t)
    \/ A_Return(t)
    \/ A_ClearSeen(t)

\* one request at a time
Next == \E t \in {1} : Step(t)

Spec == Init /\ [][Next]_vars

\* API_CLIENT with two requests in flight
InitConc ==
    /\ client = "concurrent"
    /\ jar = Some("session")
    /\ InitTasks
    /\ max_429_retries = MaxRetries

\* without a 429 the rate-limit middleware never sleeps
StepConc(t) ==
    \/ CallPipeline(t)
    \/ A_Lock(t)
    \/ A_Inject(t)
    \/ A_Forward(t)
    \/ RL_Send(t)
    \/ RL_Error(t)
    \/ RL_Receive(t)
    \/ A_Resume(t)
    \/ A_Token(t)
    \/ A_RetryForbidden(t)
    \/ A_Status(t)
    \/ A_Body(t)
    \/ A_HasSeen(t)
    \/ A_SetSeen(t)
    \/ A_RetryEtag(t)
    \/ A_Return(t)
    \/ A_ClearSeen(t)

NextConc == \E t \in Tasks : StepConc(t)

SpecConc == InitConc /\ [][NextConc]_vars

\* API_CLIENT built with one retry after a 429, two requests in flight
InitLimited ==
    /\ client = "limited"
    /\ jar = Some("session")
    /\ InitTasks
    /\ max_429_retries = MaxConcRetries

NextLimited == \E t \in Tasks : Step(t)

SpecLimited == InitLimited /\ [][NextLimited]_vars

\* ingest_headers on its own, over every header text of the model
InitIngest ==
    /\ client = "ingest"
    /\ jar = None
    /\ InitTasks

NextIngest == IngestLock \/ IngestHeaders

SpecIngest == InitIngest /\ [][NextIngest]_vars

(***************************************************************************)
(* Properties.                                                             *)
(***************************************************************************)
\* What the claims call a header that "parses": the seconds each header text
\* of the model stands for, written out text by text.
SecondsOf(text) ==
    CASE text = <<"0">> -> Some(0)
      [] text = <<"2">> -> Some(2)
      [] text = <<" ", "2">> -> Some(2)
      [] text = <<" ", "3", " ">> -> Some(3)
      [] text = <<"+", "1">> -> Some(1)
      [] OTHER -> None
HeaderSeconds(h) == IF h = None THEN None ELSE SecondsOf(Unwrap(h))

\* the rate-limit middleware is the whole client and its handle has returned
RlDone(t) == client = "ratelimit" /\ pc[t] = "done"
Returned429(t) == ret[t].kind = "ok" /\ ret[t].resp.status = 429
Replayable(t) == hist[t].call.clonable

\* C1 as amended: for a request whose body can be duplicated, a call whose
\* every send was answered with 429 has made exactly max_429_retries + 1 sends
\* when it returns, and returns a 429 response as Ok; no call, whatever the
\* answers, ever makes more than max_429_retries + 1 sends.
C1_SendsWhenAlways429 ==
    \A t \in Tasks :
        /\ sends[t] <= max_429_retries + 1
        /\ (RlDone(t) /\ Replayable(t) /\ got429[t] = sends[t])
                => (sends[t] = max_429_retries + 1 /\ Returned429(t))

C1_Witness ==
    /\ RlDone(1) /\ Replayable(1) /\ max_429_retries = MaxRetries
    /\ got429[1] = sends[1] /\ sends[1] = MaxRetries + 1 /\ Returned429(1)

\* C1 as stated: the same for every request, replayable or not.
C1_Original ==
    \A t \in Tasks :
        /\ sends[t] <= max_429_retries + 1
        /\ (RlDone(t) /\ got429[t] = sends[t])
                => (sends[t] = max_429_retries + 1 /\ Returned429(t))

\* C7: a replayable request that gets k 429s (k <= max_429_retries) and then
\* another response comes back with that response after k + 1 sends and k
\* sleeps; a 429 comes back only when all max_429_retries + 1 sends got one;
\* and at every moment the sends and the sleeps alternate.
C7_RetriesThenResponse ==
    \A t \in Tasks :
        /\ (RlDone(t) /\ Replayable(t) /\ ret[t].kind = "ok" /\ ~Returned429(t))
                => /\ got429[t] <= max_429_retries
                   /\ sends[t] = got429[t] + 1
                   /\ sleeps[t] = got429[t]
        /\ (RlDone(t) /\ Replayable(t) /\ Returned429(t))
                => got429[t] = max_429_retries + 1
        /\ (client = "ratelimit" /\ Replayable(t) /\ pc[t] = "rl_send")
                => sleeps[t] = sends[t]
        /\ (client = "ratelimit" /\ Replayable(t) /\ pc[t] \in {"rl_wait", "rl_sleep"})
                => sends[t] = sleeps[t] + 1

C7_Witness ==
    /\ RlDone(1) /\ Replayable(1) /\ ret[1].kind = "ok" /\ ret[1].resp.status = 200
    /\ max_429_retries = MaxRetries
    /\ got429[1] = MaxRetries /\ sends[1] = MaxRetries + 1 /\ sleeps[1] = MaxRetries

\* C8: the sleep started after a 429 lasts wait + cushion: wait is the
\* retry-after value when that header parses, else the x-ratelimit-reset value
\* when that one parses, else 1 second; the cushion is 75 ms.
C8_SleepAfter429 ==
    \A t \in Tasks :
        pc[t] = "rl_sleep" =>
            LET ra == HeaderSeconds(rl[t].resp.retry_after)
                rs == HeaderSeconds(rl[t].resp.reset)
                wait == IF ra # None THEN Unwrap(ra)
                        ELSE IF rs # None THEN Unwrap(rs) ELSE 1
            IN  /\ rl[t].resp.status = 429
                /\ slept_ms[t] = wait * 1000 + 75

C8_Witness ==
    /\ pc[1] = "rl_sleep"
    /\ rl[1].resp.retry_after = Some(<<"x">>)
    /\ rl[1].resp.reset = Some(<<" ", "2">>)
    /\ slept_ms[1] = 2075

\* C9: a request whose body cannot be duplicated is sent once: when it was
\* answered with 429, handle returns a 429 response as Ok after that one send.
C9_NotReplayableSentOnce ==
    \A t \in Tasks :
        (client = "ratelimit" /\ ~Replayable(t)) =>
            /\ sends[t] <= 1
            /\ (pc[t] = "done" /\ got429[t] > 0) => (sends[t] = 1 /\ Returned429(t))

C9_Witness ==
    /\ RlDone(1) /\ ~Replayable(1) /\ max_429_retries = MaxRetries
    /\ got429[1] = 1 /\ sends[1] = 1 /\ Returned429(1)

\* C10: a request whose body cannot be duplicated gets its 429 back without
\* any sleep between the 429 and the return.
C10_NoSleepBeforeGivingUp ==
    \A t \in Tasks :
        (RlDone(t) /\ ~Replayable(t) /\ got429[t] > 0) => sleeps[t] = 0

\* C2: a call that began with cached remaining = 0 and reset_after_secs = N > 0
\* has slept at least N seconds plus the cushion before its first send.
C2_PreflightWait ==
    \A t \in Tasks :
        (/\ pc[t] = "rl_wait"
         /\ sends[t] = 1
         /\ entry[t].remaining = Some(0)
         /\ entry[t].reset_after_secs # None
         /\ Unwrap(entry[t].reset_after_secs) > 0)
            => waited_ms[t] >= Unwrap(entry[t].reset_after_secs) * 1000 + cushion_ms

\* C3: once handle has a response from the next layer, the RateState holds the
\* value of each rate header of that response that parses.
ReceivedBy(t) ==
    IF pc'[t] = "rl_sleep" THEN rl'[t].resp ELSE ret'[t].resp
C3_IngestOnResponse ==
    [][\A t \in Tasks :
        (pc[t] = "rl_wait" /\ pc'[t] # "rl_wait" /\ ret'[t].kind # "err") =>
            /\ HeaderSeconds(ReceivedBy(t).remaining) # None
                    => state'.remaining = HeaderSeconds(ReceivedBy(t).remaining)
            /\ HeaderSeconds(ReceivedBy(t).reset) # None
                    => state'.reset_after_secs = HeaderSeconds(ReceivedBy(t).reset)]_vars

\* C4: an ingest leaves a cached field as it was when the response has no such
\* header or one that does not parse: with neither header both fields stay,
\* with one header only that field changes, and no ingest turns a known value
\* into an unknown one.
C4_AbsentHeaderKeepsValue ==
    [][ingested' # ingested =>
        /\ HeaderSeconds(ingested'.remaining) = None
                => state'.remaining = state.remaining
        /\ HeaderSeconds(ingested'.reset) = None
                => state'.reset_after_secs = state.reset_after_secs
        /\ state.remaining # None => state'.remaining # None
        /\ state.reset_after_secs # None => state'.reset_after_secs # None]_vars

C4_Witness ==
    /\ client = "ingest"
    /\ ingested.status = 200
    /\ ingested.remaining = None
    /\ ingested.reset = Some(<<"-", "1">>)
    /\ state = [remaining |-> Some(0), reset_after_secs |-> Some(3)]

\* the token headers whose text is readable, and all token headers
ReadableTokens == {Some(<<"A">>), Some(<<"B">>)}
TokenHeaders == TokenHeader \ {None}

\* the running handle was called by the 403 branch of the one before it
IsForbiddenRetry(t) ==
    stack[t] # <<>> /\ stack[t][Len(stack[t])].at = "L150"

\* the request of a 403 retry carries the token of the 403 that caused it
RetryCarriesNewToken ==
    \A t \in Tasks :
        /\ (pc[t] = "a_forward" /\ IsForbiddenRetry(t))
                => (hist[t].fresh # None /\ au[t].req.csrf = hist[t].fresh)
        /\ (pc[t] = "rl_send" /\ sends[t] = 0 /\ IsForbiddenRetry(t))
                => (hist[t].fresh # None /\ rl[t].req.csrf = hist[t].fresh)

\* what handle does with a 403 whose token header is one of `tokens`: store
\* the token and call itself once; with any other 403: return it as it is
ForbiddenHandling(tokens) ==
    \A t \in Tasks :
        (pc[t] = "a_status" /\ pc'[t] # "a_status" /\ au[t].resp.status = 403) =>
            IF au[t].resp.csrf \in tokens
            THEN /\ csrf_token = au[t].resp.csrf
                 /\ pc'[t] = "a_inject"
                 /\ hist'[t].retries403 = hist[t].retries403 + 1
                 /\ Len(stack'[t]) = Len(stack[t]) + 1
            ELSE /\ pc'[t] = "a_return"
                 /\ ret'[t] = Ok(au[t].resp)
                 /\ hist'[t].retries403 = hist[t].retries403
                 /\ stack'[t] = stack[t]

\* C5 as amended: on a 403 whose token header is readable text, the auth
\* middleware stores that token and retries once for that response, and the
\* retry's request carries the new token (no other request being in flight);
\* a 403 without a readable token header is returned with no further retry.
C5_ForbiddenRetry ==
    /\ []RetryCarriesNewToken
    /\ [][ForbiddenHandling(ReadableTokens)]_vars

C5_Witness ==
    /\ pc[1] = "done"
    /\ hist[1].retries403 = 1
    /\ csrf_token = Some(<<"A">>)
    /\ ret[1] = Ok(Response(403, None, None, None, None, None))

\* C5 as stated: the same for every 403 that carries a token header.
C5_Original ==
    /\ []RetryCarriesNewToken
    /\ [][ForbiddenHandling(TokenHeaders)]_vars

\* C6 as amended: a request is re-sent because of a 403 only after a 403 whose
\* token header the same call stored, once per such response: the re-sends
\* never outnumber those responses, and lag them by at most the one retry
\* about to be made.  (They are not bounded by one.)
C6_RetryPerTokenUpdate ==
    \A t \in Tasks :
        /\ hist[t].retries403 <= hist[t].updates403
        /\ hist[t].updates403 <= hist[t].retries403 + 1
        /\ hist[t].updates403 = hist[t].retries403 + 1
                => (pc[t] = "a_status" /\ au[t].resp.status = 403
                    /\ au[t].did_update_csrf)

C6_Witness == pc[1] = "done" /\ hist[1].retries403 = 2 /\ hist[1].updates403 = 2

\* C6 as stated: at most one 403-triggered re-send per caller request.
C6_Original == \A t \in Tasks : hist[t].retries403 <= 1

\* the caller of API_CLIENT has its answer
AuDone(t) == client # "ratelimit" /\ pc[t] = "done"

\* C11: a request whose body cannot be duplicated is never the reason for the
\* auth middleware to abort: its handle does not panic, and when it has
\* returned, it returned what the next layer answered to the one forward.
C11_NotReplayableCompletes ==
    \A t \in Tasks :
        (client # "ratelimit" /\ ~Replayable(t)) =>
            /\ pc[t] # "panicked"
            /\ ret[t].kind # "panic"
            /\ pc[t] = "done" => (hist[t].answers = 1 /\ ret[t].kind \in {"ok", "err"})

\* a call whose answers were all write conflicts but the last one
EtagRun(t) ==
    /\ hist[t].etags >= 1
    /\ hist[t].retries403 = 0
    /\ hist[t].answers = hist[t].etags + 1

\* a returning handle hands the value on as it is, and does nothing else
\* than clear the flag it set
Unwinding(t) ==
    pc[t] \in {"a_return", "a_clear_seen"} =>
        /\ ret'[t] = ret[t]
        /\ pc'[t] \in {"a_return", "a_clear_seen", "done"}
        /\ sends' = sends
        /\ hist' = hist
        /\ slept_ms' = slept_ms

\* C12: a single request that gets n >= 1 write conflicts in a row and then
\* another outcome: the warning was logged once, each of the n retries came
\* after a sleep of one second, and the caller gets the last outcome.
C12_WarnOnceSleepEach ==
    /\ [](\A t \in Tasks :
            /\ pc[t] = "a_sleep" => slept_ms[t] = 1000
            /\ hist[t].slept_secs = hist[t].etag_sleeps
            /\ (AuDone(t) /\ EtagRun(t)) =>
                    /\ hist[t].warnings = 1
                    /\ hist[t].etag_sleeps = hist[t].etags
                    /\ ~(ret[t].kind = "ok" /\ ret[t].resp.message = Some("ETagMismatch")))
    /\ [][\A t \in Tasks :
            /\ hist'[t].etag_sleeps > hist[t].etag_sleeps => pc[t] = "a_sleep"
            /\ Unwinding(t)]_vars

C12_Witness ==
    /\ AuDone(1) /\ EtagRun(1)
    /\ hist[1].etags = MaxDepth /\ hist[1].warnings = 1
    /\ hist[1].slept_secs = MaxDepth
    /\ ret[1] = Ok(Response(200, None, None, None, None, None))

\* the handle of t is on its way down: neither returned nor returning
Descending(t) ==
    client # "ratelimit" /\ pc[t] \notin {"idle", "done", "panicked", "a_return", "a_clear_seen"}

\* C13: nothing but an answer that is no write conflict ends the retries: a
\* call that has returned got such an answer, every write conflict is
\* followed by one more call of handle inside the running one, and no count
\* of conflicts stops it.
C13_ConflictNeverGivesUp ==
    \A t \in Tasks :
        /\ AuDone(t) => hist[t].etags < hist[t].answers
        /\ hist[t].etag_sleeps <= hist[t].etags
        /\ hist[t].etags <= hist[t].etag_sleeps + 1
        /\ Descending(t) => Len(stack[t]) = hist[t].retries403 + hist[t].etag_sleeps
        /\ (Descending(t) /\ hist[t].etags = hist[t].etag_sleeps + 1)
                => pc[t] \in {"a_has_seen", "a_set_seen", "a_sleep"}

C13_Witness ==
    /\ pc[1] = "a_sleep"
    /\ hist[1].answers = MaxDepth + 1
    /\ hist[1].etags = MaxDepth + 1
    /\ Len(stack[1]) = MaxDepth

\* the body of the 400 that handle is reading has a message, and it is not
\* the write-conflict marker
OtherMessage(t) ==
    /\ pc[t] = "a_body"
    /\ au[t].resp.message # None
    /\ au[t].resp.message # Some("ETagMismatch")

\* C14: a 400 whose message is not ETagMismatch ends the call at once with an
\* error that carries the status 400 and that message: no sleep, no further
\* send, no retry, and the error reaches the caller as it is.
C14_OtherBadRequestIsError ==
    [][\A t \in Tasks :
        /\ (OtherMessage(t) /\ pc'[t] # pc[t]) =>
                /\ pc'[t] = "a_return"
                /\ ret'[t].kind = "err"
                /\ ret'[t].error = <<"status", 400, Unwrap(au[t].resp.message)>>
                /\ hist'[t] = hist[t]
                /\ stack'[t] = stack[t]
                /\ sends'[t] = sends[t]
                /\ slept_ms'[t] = slept_ms[t]
        /\ Unwinding(t)]_vars

C14_Witness ==
    /\ AuDone(1)
    /\ hist[1].answers = 1
    /\ ret[1].kind = "err"
    /\ ret[1].error = <<"status", 400, "InvalidRequest">>

\* handle is looking at the status of a response that is neither a 400 nor a
\* 403 whose token header was readable
OtherStatus(t) ==
    /\ pc[t] = "a_status"
    /\ au[t].resp.status # 400
    /\ ~(au[t].resp.status = 403 /\ au[t].resp.csrf \in ReadableTokens)

\* C15: a response that is neither a 400 nor a 403 with a token update is
\* returned as it is, as Ok: no retry, no sleep, no error made of it, and it
\* reaches the caller unchanged.
C15_OtherStatusReturned ==
    [][\A t \in Tasks :
        /\ (OtherStatus(t) /\ pc'[t] # pc[t]) =>
                /\ pc'[t] = "a_return"
                /\ ret'[t] = [kind |-> "ok", resp |-> au[t].resp, error |-> <<>>]
                /\ hist'[t] = hist[t]
                /\ stack'[t] = stack[t]
                /\ sends'[t] = sends[t]
                /\ slept_ms'[t] = slept_ms[t]
        /\ Unwinding(t)]_vars

C15_Witness ==
    /\ AuDone(1)
    /\ hist[1].answers = 1
    /\ csrf_token = Some(<<"B">>)
    /\ ret[1].kind = "ok"
    /\ ret[1].resp = Response(500, None, None, None, Some(<<"B">>), None)

\* t waits for a timer (the sleep after a 429, the sleep after a write
\* conflict) or for the network (the response, its body)
Suspended(t) == pc[t] \in {"rl_wait", "rl_sleep", "a_sleep", "a_body"}
Mutexes == {"state", "csrf_token", "seen_etag"}
HeldBy(t) == {m \in Mutexes : locks[m] = Some(t)}

\* C16: a task that sleeps or waits for the network holds none of the three
\* locks, so whoever holds a lock another task waits for is not suspended in
\* a sleep or in the network.
C16_NoLockWhileSuspended ==
    /\ \A t \in Tasks : Suspended(t) => HeldBy(t) = {}
    /\ \A m \in Mutexes : \A t \in Tasks : locks[m] = Some(t) => ~Suspended(t)
    /\ \A t \in Tasks : Cardinality(HeldBy(t)) <= 1

C16_Witness ==
    /\ pc[1] = "rl_sleep" /\ HeldBy(1) = {}
    /\ pc[2] = "a_set_seen" /\ HeldBy(2) = {"seen_etag"}

\* C17: no step of the auth middleware changes the session cookie of the
\* jar: it stays what set_cookie made it at startup; of the shared fields a
\* step changes the token and the write-conflict flag only, never the
\* RateState or the configuration of the middlewares.
C17_CredentialUntouched ==
    [][/\ jar' = jar
       /\ state' = state
       /\ max_429_retries' = max_429_retries
       /\ cushion_ms' = cushion_ms]_vars

C17_Witness ==
    /\ jar = Some("session")
    /\ pc[1] = "a_sleep"
    /\ seen_etag
    /\ csrf_token = Some(<<"A">>)
    /\ hist[1].retries403 = 1
    /\ au[1].req.cookie = Some("session")

\* t is done with the token header of its response in this step
Ingests(t) == pc[t] = "a_token" /\ pc'[t] = "a_status"

\* the cached token changes only when a task is done with a response whose
\* token header is one of `tokens`, then to that header, and under the lock
LastWriterWins(tokens) ==
    /\ \A t \in Tasks :
            Ingests(t) =>
                IF au[t].resp.csrf \in tokens
                THEN csrf_token' = au[t].resp.csrf /\ Holds(t, "csrf_token")
                ELSE csrf_token' = csrf_token
    /\ (\A t \in Tasks : ~Ingests(t)) => csrf_token' = csrf_token
    /\ csrf_token # None => csrf_token' # None

\* the request handle forwards, and the one the rate-limit middleware sends,
\* carry the token that was cached when handle inserted the headers
CarriesInjected ==
    /\ \A t \in Tasks :
            (pc[t] = "a_inject" /\ pc'[t] = "a_forward") =>
                /\ csrf_token # None => au'[t].req.csrf = csrf_token
                /\ csrf_token = None => au'[t].req.csrf = au[t].req.csrf
                /\ hist'[t].injected = csrf_token
    /\ \A t \in Tasks :
            (pc[t] = "a_forward" /\ hist[t].injected # None)
                => au[t].req.csrf = hist[t].injected
    /\ \A t \in Tasks :
            (pc[t] \in {"rl_send", "rl_wait", "rl_sleep"} /\ hist[t].injected # None)
                => rl[t].req.csrf = hist[t].injected

\* C18 as amended: with requests in flight at once the token is written under
\* its lock, one writer at a time, and after a task is done with a response
\* the cached token is the token header of that response when the header is
\* readable text, and what it was before otherwise: no response clears it;
\* every forwarded request carries the token cached when its headers were
\* inserted.
C18_LastWriterWins == [][LastWriterWins(ReadableTokens) /\ CarriesInjected]_vars

C18_Witness ==
    /\ client = "concurrent"
    /\ pc[1] = "a_forward"
    /\ hist[1].fresh = Some(<<"A">>)
    /\ hist[2].updates403 = 1
    /\ csrf_token = Some(<<"B">>)
    /\ au[1].req.csrf = Some(<<"B">>)

\* C18 as stated: the same for every response that carries a token header.
C18_Original == [][LastWriterWins(TokenHeaders) /\ CarriesInjected]_vars

\* t is inside RobloxRateLimitMiddleware::handle
InRateLimit(t) == pc[t] \in {"rl_send", "rl_wait", "rl_sleep"}

\* C19: a request goes to the next layer only from inside the rate-limit
\* middleware, which is entered only by the forward of the auth middleware,
\* which comes only after the insertion of the headers; each entry starts
\* with attempt 0 and no send made, also when it is a retry of the auth
\* middleware, and such a retry starts at the insertion of the headers.
C19_AuthThenRateLimit ==
    /\ [](\A t \in Tasks :
            (client = "pipeline" /\ InRateLimit(t)) =>
                /\ rl[t].attempt = sleeps[t]
                /\ rl[t].req.cookie = jar
                /\ rl[t].req.csrf = hist[t].injected)
    /\ [][\A t \in Tasks :
            /\ sends'[t] > sends[t] => (pc[t] = "rl_send" /\ pc'[t] = "rl_wait")
            /\ (InRateLimit(t)' /\ ~InRateLimit(t)) =>
                    /\ pc[t] = "a_forward"
                    /\ pc'[t] = "rl_send"
                    /\ rl'[t].attempt = 0
                    /\ sends'[t] = 0
                    /\ rl'[t].req = au[t].req
            /\ (pc'[t] = "a_forward" /\ pc[t] # "a_forward") => pc[t] = "a_inject"
            /\ (hist'[t].retries403 > hist[t].retries403
                    \/ hist'[t].etag_sleeps > hist[t].etag_sleeps)
                    => pc'[t] = "a_inject"]_vars

C19_Witness ==
    /\ pc[1] = "a_forward"
    /\ max_429_retries = MaxRetries
    /\ sleeps[1] = MaxRetries
    /\ hist[1].retries403 = 1
    /\ hist[1].etag_sleeps = 1
    /\ au[1].req.cookie = Some("session")

\* no request is inside RobloxAuthMiddleware::handle
NoneInHandle == \A t \in Tasks : pc[t] \in {"idle", "done", "panicked"}

\* C20: whenever no request is inside the handle of the auth middleware, the
\* write-conflict flag is false, whatever the requests in flight did before
\* and however their steps were interleaved.
C20_FlagClearedAtRest == NoneInHandle => ~seen_etag

C20_Witness ==
    /\ client = "concurrent"
    /\ pc[1] = "done" /\ pc[2] = "done"
    /\ hist[1].warnings = 1 /\ hist[2].warnings = 1
    /\ ret[1].kind = "err" /\ ret[2].kind = "ok"
    /\ ~seen_etag

\* t logs the warning in this step
Warns(t) == hist'[t].warnings > hist[t].warnings

\* C21: with requests in flight at once the warning is logged only by a
\* request that finds the flag clear at the moment it sets it, so at most
\* once between two clears of the flag, and only at the first write conflict
\* of a caller request: a request that is retrying already does not warn.
C21_WarnOncePerClear ==
    [][\A t \in Tasks :
        Warns(t) => (~seen_etag /\ hist[t].etags = 1)]_vars

\* the value on its way to the caller of t is an error of the next layer
NextLayerError(t) ==
    /\ client = "pipeline"
    /\ pc[t] # "done"
    /\ ret[t].kind = "err"
    /\ ret[t].error = <<"next">>

\* C22: an error of the next layer leaves the rate-limit middleware in the
\* step it arrives, with no sleep and no further send (a sleep begins only
\* after a 429 response); the auth middleware hands it on as it is, writes no
\* token, and writes the flag only to clear it in a call that had set it, so
\* that the flag is false when the error reaches the caller.
C22_NextErrorPropagates ==
    /\ [](\A t \in Tasks :
            (AuDone(t) /\ ret[t].kind = "err" /\ ret[t].error = <<"next">>)
                => ~seen_etag)
    /\ [][\A t \in Tasks :
            /\ (pc[t] = "rl_wait" /\ pc'[t] = "rl_sleep") => rl'[t].resp.status = 429
            /\ (pc[t] = "rl_wait" /\ ret'[t].kind = "err") =>
                    /\ ret'[t].error = <<"next">>
                    /\ pc'[t] = "a_resume"
                    /\ sends'[t] = sends[t]
                    /\ sleeps'[t] = sleeps[t]
                    /\ slept_ms'[t] = slept_ms[t]
            /\ NextLayerError(t) =>
                    /\ ret'[t] = ret[t]
                    /\ pc'[t] \in {"a_return", "a_clear_seen", "done"}
                    /\ csrf_token' = csrf_token
                    /\ seen_etag' # seen_etag => (pc[t] = "a_clear_seen" /\ ~seen_etag')
                    /\ sends'[t] = sends[t]
                    /\ sleeps'[t] = sleeps[t]
                    /\ slept_ms'[t] = slept_ms[t]
                    /\ hist'[t].retries403 = hist[t].retries403
                    /\ hist'[t].etag_sleeps = hist[t].etag_sleeps
                    /\ hist'[t].warnings = hist[t].warnings]_vars

C22_Witness ==
    /\ AuDone(1)
    /\ ret[1].kind = "err" /\ ret[1].error = <<"next">>
    /\ hist[1].warnings = 1 /\ hist[1].etag_sleeps = 1
    /\ got429[1] = 1 /\ sends[1] = 2
    /\ ~seen_etag

====
